---- MODULE Spec2Model ----
(***************************************************************************)
(* Experience collection for PPO: PPOOrchestrator (decoder-only) and       *)
(* T5PPOOrchestrator (encoder-decoder), trlx/orchestrator/                 *)
(* ppo_orchestrator.py.                                                    *)
(*                                                                         *)
(* Spec           : the make_experience loop, the cyclic prompt iterator,  *)
(*                  reward shaping, reference statistics, the store        *)
(* SpecLoader     : the cyclic prompt iterator alone, with the window of   *)
(*                  the most recent fetches                                *)
(* SpecSlice      : response-span slicing and the terminal reward          *)
(*                  overwrite on one padded batch                          *)
(*                                                                         *)
(* Tensors are sequences; Python indices are 0-based and are translated    *)
(* at PySlice.  Floating-point scores are kept exact: a quotient           *)
(* score / std is the pair of its integer numerator and the std term, and  *)
(* comparisons against the clip bound are done on squares.                 *)
(***************************************************************************)
EXTENDS Integers, Sequences, FiniteSets, TLC

VARIABLES
    config,             \* rl_model.config.method (+ orchestrator class, chunk_size)
    pipeline_loader,    \* self.pipeline_loader: the number of prompts it holds
    pipeline_iterator,  \* self.pipeline_iterator: prompts left in the current pass
    running,            \* self.running (RunningMoments)
    ref_mean,           \* self.ref_mean
    ref_std,            \* self.ref_std
    store,              \* rl_model's rollout store: one entry per push_to_store call
    pc,                 \* "idle" | "loop" | "returned" | "raised"; "loader" | "fetched"
                        \* under SpecLoader; "slice" under SpecSlice
    num_rollouts,       \* argument of the running make_experience call
    ppo_rl_elements,    \* local accumulator of the call
    exp_time,           \* local exp_time: "unbound" until clock.tick() assigns it
    raised_at,          \* where the call raised: "none" | "StopIteration" | "before scoring"
                        \* | "scale" | "after scoring" | "stats"
    batch,              \* local batch: prompts of the last fetched batch
    raw_scores,         \* history: reward_fn's scores for the last scored batch
    divisor,            \* history: what those scores were divided by
    scores,             \* local scores after scaling and clipping
    processed,          \* history: prompts of every batch fetched in this call
    iterations,         \* history: passes through the loop body begun in this call
    store_before,       \* history: the store when the call started
    pushes,             \* history: push_to_store calls made by this call
    logged,             \* history: accelerator.log calls made by this call
    fetched,            \* history: batches fetched since construction
    fetches,            \* history (SpecLoader): the last pipeline_loader batches fetched
    pass_seen,          \* history (SpecLoader): prompts fetched since the last restart
    span                \* SpecSlice: the batch being sliced and the result

vars == <<config, pipeline_loader, pipeline_iterator, running, ref_mean, ref_std, store, pc,
          num_rollouts, ppo_rl_elements, exp_time, raised_at, batch, raw_scores, divisor,
          scores, processed, iterations, store_before, pushes, logged, fetched, fetches, pass_seen, span>>

-----------------------------------------------------------------------------
(* Bounds *)

NumPrompts == 2
MaxDataset == 3
MaxRollouts == 2
MaxBatches == 2
MaxPrompt == 2
MaxGen == 2
SliceSamples == 2

\* Python None, as a value comparable with the statistics below.
None == [kind |-> "None"]

ScoreVals == {-2, 0, 2}
ChunkSizes == {1, 2}
ClipVals == {0, 1}          \* cliprange_reward: 0 is falsy (no clipping)
ScaleModes == {"running", "ref", "none"}

Min(a, b) == IF a < b THEN a ELSE b

RECURSIVE SumSeq(_)
SumSeq(s) == IF s = <<>> THEN 0 ELSE Head(s) + SumSeq(Tail(s))

RECURSIVE SumSq(_)
SumSq(s) == IF s = <<>> THEN 0 ELSE Head(s) * Head(s) + SumSq(Tail(s))

\* Python t[a:b] for 0 <= a, 0 <= b: indices a .. min(b, len(t)) - 1.
PySlice(t, a, b) == SubSeq(t, a + 1, Min(b, Len(t)))

-----------------------------------------------------------------------------
(* The cyclic prompt iterator *)

\* iter(loader) with shuffle=True: every ordering of the loader's n prompts.
Passes(n) == {s \in [1 .. n -> 1 .. n] : \A i, j \in 1 .. n : i # j => s[i] # s[j]}

\* next(iterator): the next chunk_size prompts, or StopIteration when none is left.
IterNext(it, chunk) ==
    IF it = <<>>
    THEN [stop |-> TRUE, batch |-> <<>>, rest |-> <<>>]
    ELSE [stop  |-> FALSE,
          batch |-> SubSeq(it, 1, Min(chunk, Len(it))),
          rest  |-> SubSeq(it, Min(chunk, Len(it)) + 1, Len(it))]

\* Mutant of NextBatch: exhaustion is not caught.
NextBatchNoRestart(it, loader, chunk) == {IterNext(it, chunk)}

\* try: next(it) except StopIteration: it = iter(loader); next(it)
\* The results for every reshuffle the restart can draw.
NextBatch(it, loader, chunk) ==
    IF ~IterNext(it, chunk).stop
    THEN {IterNext(it, chunk)}
    ELSE {IterNext(p, chunk) : p \in Passes(loader)}

-----------------------------------------------------------------------------
(* Score statistics (torch) *)

\* scores.mean(): the exact fraction sum / n.
TorchMean(xs) == [kind |-> "mean", sum |-> SumSeq(xs), n |-> Len(xs)]

\* scores.std(): the unbiased estimator, sqrt(num / den) with
\* num = n * sum(x^2) - sum(x)^2 and den = n * (n - 1).  One score gives
\* 0 / 0 = nan; equal scores give 0.
TorchStd(xs) ==
    LET n   == Len(xs)
        num == n * SumSq(xs) - SumSeq(xs) * SumSeq(xs)
    IN  IF n = 1 THEN [kind |-> "nan"]
        ELSE IF num = 0 THEN [kind |-> "zero"]
        ELSE [kind |-> "sqrt", num |-> num, den |-> n * (n - 1)]

One == [kind |-> "one"]

\* A float score: s / d, with d a std term (One when it was never scaled).
Quot(s, d) == [s |-> s, d |-> d]

\* scores /= std, on one score.
TorchDiv(q, d) == Quot(q.s, d)

\* IEEE: x / nan = nan and 0 / 0 = nan.
IsNaN(q) == q.d.kind = "nan" \/ (q.d.kind = "zero" /\ q.s = 0)

\* q > c, for c >= 0 and q not nan.  x / 0 is +inf or -inf by x's sign; a
\* "small" std is positive and below every nonzero score's magnitude.
Above(q, c) ==
    CASE q.d.kind = "one"   -> q.s > c
      [] q.d.kind = "sqrt"  -> q.s > 0 /\ q.s * q.s * q.d.den > c * c * q.d.num
      [] q.d.kind = "zero"  -> q.s > 0
      [] q.d.kind = "small" -> q.s > 0
      [] OTHER              -> FALSE

Below(q, c) == Above(Quot(0 - q.s, q.d), c)

\* torch.clip(x, -c, c) on one score: nan stays nan.
TorchClip(q, c) ==
    IF IsNaN(q) THEN q
    ELSE IF Above(q, c) THEN Quot(c, One)
    ELSE IF Below(q, c) THEN Quot(0 - c, One)
    ELSE q

-----------------------------------------------------------------------------
(* RunningMoments *)

RunningInit == [count |-> 0, sum |-> 0, sumsq |-> 0]

\* running.update(xs): the aggregate over every scalar seen so far.
RunningUpdate(r, xs) ==
    [count |-> r.count + Len(xs), sum |-> r.sum + SumSeq(xs), sumsq |-> r.sumsq + SumSq(xs)]

\* running.std: the spread of everything seen, sqrt(num / den).  The class
\* is defined outside this file; its std is taken to be positive always
\* (small when every scalar seen is the same), so that nothing below rests
\* on a zero or undefined running std.
RunningStd(r) ==
    LET num == r.count * r.sumsq - r.sum * r.sum
    IN  IF num = 0 THEN [kind |-> "small"]
        ELSE [kind |-> "sqrt", num |-> num, den |-> r.count * r.count]

-----------------------------------------------------------------------------
(* Reward shaping inside make_experience *)

\* Mutant of RefAfter: the capture is not guarded, every batch overwrites it.
RefAfterEveryBatch(rm, rs, xs) == [mean |-> TorchMean(xs), std |-> TorchStd(xs)]

\* if self.ref_mean is None: self.ref_mean, self.ref_std = mean, std
RefAfter(rm, rs, xs) ==
    IF rm.kind = "None"
    THEN [mean |-> TorchMean(xs), std |-> TorchStd(xs)]
    ELSE [mean |-> rm, std |-> rs]

\* What the scores are divided by under scale_reward.
Divisor(scale, run, rs) ==
    CASE scale = "running" -> RunningStd(run)
      [] scale = "ref"     -> rs
      [] OTHER             -> One

\* The scaling step, then the clipping step.
Shape(xs, d, clip) ==
    LET scaled == [i \in 1 .. Len(xs) |-> TorchDiv(Quot(xs[i], One), d)]
    IN  IF clip # 0
        THEN [i \in 1 .. Len(xs) |-> TorchClip(scaled[i], clip)]
        ELSE scaled

\* One PPORLElement per sample of the batch, in batch order (its tensors are
\* built by SliceBatch below).
Elements(b) == [i \in 1 .. Len(b) |-> [query_tensor |-> b[i]]]

\* Mutant of LoopCond: the loop stops one element short.
LoopCondOffByOne(len, n) == len + 1 < n

\* while len(ppo_rl_elements) < num_rollouts
LoopCond(len, n) == len < n

-----------------------------------------------------------------------------
(* make_experience *)

RolloutArgs == -1 .. MaxRollouts

Configs == [chunk_size : ChunkSizes,
            scale_reward : ScaleModes, cliprange_reward : ClipVals,
            ref_mean : {None, [kind |-> "mean", sum |-> 0, n |-> 1]},
            ref_std : {None, One}]

NoSpan == [arch |-> "none"]

NoDivisor == [kind |-> "unused"]

\* The state after __init__, but for pc and the histories of the other
\* specifications.
Constructed(loader) ==
    /\ pipeline_loader = loader
    /\ pipeline_iterator \in Passes(loader)
    /\ running = RunningInit
    /\ ref_mean = config.ref_mean
    /\ ref_std = config.ref_std
    /\ store = <<>>
    /\ num_rollouts = 0
    /\ ppo_rl_elements = <<>>
    /\ exp_time = "unbound"
    /\ raised_at = "none"
    /\ batch = <<>>
    /\ raw_scores = <<>>
    /\ divisor = NoDivisor
    /\ scores = <<>>
    /\ processed = <<>>
    /\ iterations = 0
    /\ store_before = <<>>
    /\ pushes = 0
    /\ logged = 0
    /\ fetched = 0
    /\ fetches = <<>>
    /\ pass_seen = <<>>
    /\ span = NoSpan

Init ==
    /\ config \in Configs
    /\ Constructed(NumPrompts)
    /\ pc = "idle"

\* Mutant of ExpTimeAtEntry: exp_time is initialised before the loop.
ExpTimeInitialised == "bound"

\* exp_time is assigned only by clock.tick() at the end of the loop body.
ExpTimeAtEntry == "unbound"

\* make_experience(n) is entered; the caller may call again after a return
\* or a raise.  A call is started only while the batches it can need (at
\* most n) fit in MaxBatches.
Call(n) ==
    /\ pc \in {"idle", "returned", "raised"}
    /\ fetched + (IF n > 0 THEN n ELSE 0) <= MaxBatches
    /\ pc' = "loop"
    /\ num_rollouts' = n
    /\ ppo_rl_elements' = <<>>
    /\ exp_time' = ExpTimeAtEntry
    /\ raised_at' = "none"
    /\ batch' = <<>>
    /\ raw_scores' = <<>>
    /\ divisor' = NoDivisor
    /\ scores' = <<>>
    /\ processed' = <<>>
    /\ iterations' = 0
    /\ store_before' = store
    /\ pushes' = 0
    /\ logged' = 0
    /\ UNCHANGED <<config, pipeline_loader, pipeline_iterator, running, ref_mean, ref_std,
                   store, fetched, fetches, pass_seen, span>>

\* The fetch at the top of the loop body.
Fetch(nb) ==
    /\ pipeline_iterator' = nb.rest
    /\ processed' = processed \o nb.batch
    /\ iterations' = iterations + 1
    /\ fetched' = fetched + 1

\* Scoring and the statistics that follow it.
Score(raw) ==
    /\ raw_scores' = raw
    /\ ref_mean' = RefAfter(ref_mean, ref_std, raw).mean
    /\ ref_std' = RefAfter(ref_mean, ref_std, raw).std
    /\ running' = RunningUpdate(running, raw)
    /\ divisor' = Divisor(config.scale_reward, running', ref_std')

\* An exception leaves make_experience: its locals are gone.
Raise(where) ==
    /\ pc' = "raised"
    /\ raised_at' = where
    /\ batch' = <<>>
    /\ scores' = <<>>

\* Mutant of PushToStore: the list is cut to num_rollouts before the push.
PushToStoreTruncated(st, elems) == Append(st, SubSeq(elems, 1, num_rollouts))

\* push_to_store(ppo_rl_elements)
PushToStore(st, elems) == Append(st, elems)

\* One pass through the loop body in which no collaborator fails.
Iterate ==
    /\ pc = "loop"
    /\ LoopCond(Len(ppo_rl_elements), num_rollouts)
    /\ \E nb \in NextBatch(pipeline_iterator, pipeline_loader, config.chunk_size) :
       \E raw \in [1 .. Len(nb.batch) -> ScoreVals] :
          /\ ~nb.stop
          /\ Fetch(nb)
          /\ Score(raw)
          /\ IF divisor'.kind = "None"
             THEN \* scores /= None raises TypeError
                  /\ Raise("scale")
                  /\ UNCHANGED <<ppo_rl_elements, exp_time>>
             ELSE /\ batch' = nb.batch
                  /\ scores' = Shape(raw, divisor', config.cliprange_reward)
                  /\ ppo_rl_elements' = ppo_rl_elements \o Elements(nb.batch)
                  /\ exp_time' = "bound"
                  /\ UNCHANGED <<pc, raised_at>>
    /\ UNCHANGED <<config, pipeline_loader, store, num_rollouts, store_before, pushes,
                   logged, fetches, pass_seen, span>>

\* The fetch lets StopIteration out, or generate or reward_fn raises:
\* nothing of the batch has been scored.
FailBeforeScoring ==
    /\ pc = "loop"
    /\ LoopCond(Len(ppo_rl_elements), num_rollouts)
    /\ \E nb \in NextBatch(pipeline_iterator, pipeline_loader, config.chunk_size) :
          /\ Fetch(nb)
          /\ Raise(IF nb.stop THEN "StopIteration" ELSE "before scoring")
    /\ UNCHANGED <<config, pipeline_loader, running, ref_mean, ref_std, store, num_rollouts,
                   ppo_rl_elements, exp_time, raw_scores, divisor, store_before, pushes,
                   logged, fetches, pass_seen, span>>

\* Mutant of FailAfterScoring: what was collected so far is pushed on the way out.
FailAfterScoringPartialPush ==
    /\ pc = "loop"
    /\ LoopCond(Len(ppo_rl_elements), num_rollouts)
    /\ \E nb \in NextBatch(pipeline_iterator, pipeline_loader, config.chunk_size) :
       \E raw \in [1 .. Len(nb.batch) -> ScoreVals] :
          /\ ~nb.stop
          /\ Fetch(nb)
          /\ Score(raw)
          /\ divisor'.kind # "None"
    /\ Raise("after scoring")
    /\ store' = Append(store, ppo_rl_elements)
    /\ pushes' = pushes + 1
    /\ UNCHANGED <<config, pipeline_loader, num_rollouts, ppo_rl_elements, exp_time,
                   store_before, logged, fetches, pass_seen, span>>

\* get_model_inputs, a forward pass or the slicing raises: the batch has
\* been scored and shaped (the division by a None ref_std raises first).
FailAfterScoring ==
    /\ pc = "loop"
    /\ LoopCond(Len(ppo_rl_elements), num_rollouts)
    /\ \E nb \in NextBatch(pipeline_iterator, pipeline_loader, config.chunk_size) :
       \E raw \in [1 .. Len(nb.batch) -> ScoreVals] :
          /\ ~nb.stop
          /\ Fetch(nb)
          /\ Score(raw)
          /\ divisor'.kind # "None"
    /\ Raise("after scoring")
    /\ UNCHANGED <<config, pipeline_loader, store, num_rollouts, ppo_rl_elements, exp_time,
                   store_before, pushes, logged, fetches, pass_seen, span>>

\* After the loop: the statistics, the telemetry log, the push.
Finish ==
    /\ pc = "loop"
    /\ ~LoopCond(Len(ppo_rl_elements), num_rollouts)
    /\ IF exp_time = "unbound"
       THEN \* stats["time/exp"] = exp_time raises UnboundLocalError
            /\ Raise("stats")
            /\ UNCHANGED <<store, pushes, logged>>
       ELSE /\ \E ray_is_initialized \in BOOLEAN :
                  logged' = IF ray_is_initialized THEN logged ELSE logged + 1
            /\ store' = PushToStore(store, ppo_rl_elements)
            /\ pushes' = pushes + 1
            /\ pc' = "returned"
            /\ UNCHANGED <<raised_at, batch, scores>>
    /\ UNCHANGED <<config, pipeline_loader, pipeline_iterator, running, ref_mean, ref_std,
                   num_rollouts, ppo_rl_elements, exp_time, raw_scores, divisor, processed,
                   iterations, store_before, fetched, fetches, pass_seen, span>>

LoopStep ==
    \/ Iterate
    \/ FailBeforeScoring
    \/ FailAfterScoring
    \/ Finish

Next ==
    \/ \E n \in RolloutArgs : Call(n)
    \/ LoopStep

Spec == Init /\ [][Next]_vars

-----------------------------------------------------------------------------
(* Properties of make_experience *)

CallEnded == pc \in {"returned", "raised"}

\* The loop was left by its test, not by an exception.
LoopExited == pc = "returned" \/ (pc = "raised" /\ raised_at = "stats")

\* C1: make_experience(N) terminates, and when its loop exits the number of
\* accumulated elements is at least N (every fetched batch being non-empty):
\* inside the call a next step is always there to take, the loop body is
\* begun at most N times, and after the N-th time only the exit is left.
C1_TerminatesWithQuota ==
    /\ LoopExited => Len(ppo_rl_elements) >= num_rollouts
    /\ pc = "loop" =>
          /\ ENABLED LoopStep
          /\ iterations <= (IF num_rollouts > 0 THEN num_rollouts ELSE 0)
          /\ iterations >= num_rollouts => ~ENABLED Iterate

C1_Witness ==
    /\ pc = "returned"
    /\ num_rollouts = 2
    /\ config.chunk_size = 1
    /\ Len(ppo_rl_elements) = 2

\* C3: with ref_mean and ref_std unset at construction, the first scored
\* batch sets both from its own mean and std, and from then on no step of
\* any call changes either.
C3_RefCapturedOnce ==
    [][/\ ref_mean.kind # "None" => (ref_mean' = ref_mean /\ ref_std' = ref_std)
       /\ (config.ref_mean = None /\ config.ref_std = None /\ running.count = 0
              /\ running'.count > 0)
          => (ref_mean' = TorchMean(raw_scores') /\ ref_std' = TorchStd(raw_scores'))
       /\ (ref_mean.kind = "None" /\ running'.count = running.count)
          => ref_mean'.kind = "None"]_vars

\* A second call has scored a batch whose statistics differ from the captured ones.
C3_Witness ==
    /\ config.ref_mean = None /\ config.ref_std = None
    /\ store # <<>>
    /\ pc = "loop"
    /\ raw_scores # <<>>
    /\ running.count > Len(raw_scores)
    /\ ref_mean # TorchMean(raw_scores)
    /\ ref_std # TorchStd(raw_scores)

\* C4: when a batch of a call fails, whichever batch it is, the call ends
\* without any push_to_store: the store is what it was when the call began.
C4_NoPartialPush ==
    pc = "raised" => (store = store_before /\ pushes = 0)

\* A later batch failed after an earlier batch of the call had been collected.
C4_Witness ==
    /\ pc = "raised"
    /\ raised_at \in {"before scoring", "after scoring"}
    /\ ppo_rl_elements # <<>>

InRange(q, c) == ~IsNaN(q) /\ ~Above(q, c) /\ ~Below(q, c)

\* Normalize first, clip second, one score at a time.
ShapedReference(x, d, c) ==
    LET scaled == Quot(x, d)
    IN  IF c = 0 \/ IsNaN(scaled) THEN scaled
        ELSE IF Above(scaled, c) THEN Quot(c, One)
        ELSE IF Below(scaled, c) THEN Quot(0 - c, One)
        ELSE scaled

\* C6: the shaped scores of every batch are the raw scores divided by the
\* running std as updated with this batch ("running"), by ref_std ("ref") or
\* by nothing, and then clamped: with a clip bound c all lie in [-c, c].
C6_NormalizeThenClip ==
    (pc = "loop" /\ scores # <<>>) =>
        \A i \in 1 .. Len(scores) :
            /\ scores[i] = ShapedReference(raw_scores[i],
                              CASE config.scale_reward = "running" -> RunningStd(running)
                                [] config.scale_reward = "ref" -> ref_std
                                [] OTHER -> One,
                              config.cliprange_reward)
            /\ config.cliprange_reward # 0 => InRange(scores[i], config.cliprange_reward)

\* C7: a call that completes has pushed once, after its loop, the whole
\* accumulation: every element of every batch it fetched, in order; at
\* least num_rollouts of them and fewer than num_rollouts plus the last batch.
C7_SinglePushOfEverything ==
    pc = "returned" =>
        /\ pushes = 1
        /\ store = Append(store_before, ppo_rl_elements)
        /\ [i \in 1 .. Len(ppo_rl_elements) |-> ppo_rl_elements[i].query_tensor] = processed
        /\ Len(ppo_rl_elements) >= num_rollouts
        /\ Len(ppo_rl_elements) - Len(batch) < num_rollouts

\* The last batch overshot the quota.
C7_Witness ==
    /\ pc = "returned"
    /\ Len(store[Len(store)]) > num_rollouts

\* C9: with scale_reward = "ref", whatever ref_mean and ref_std were at
\* construction, ref_std holds a value whenever scores are divided by it.
C9_RefStdSetWhenUsed ==
    (config.scale_reward = "ref" /\ divisor # NoDivisor) => divisor.kind # "None"

\* C10: with num_rollouts <= 0 the loop body never runs: nothing is fetched,
\* the iterator, RunningMoments and the reference statistics stay as they
\* were, and the call raises at the statistics step, before the telemetry
\* log and the push.
C10_NonPositiveRollouts ==
    [][(pc = "loop" /\ num_rollouts <= 0) =>
          /\ pc' = "raised"
          /\ raised_at' = "stats"
          /\ UNCHANGED <<pipeline_iterator, fetched, running, ref_mean, ref_std, store,
                         pushes, logged>>]_vars

C10_Witness ==
    /\ pc = "raised"
    /\ raised_at = "stats"
    /\ num_rollouts <= 0
    /\ store # <<>>

-----------------------------------------------------------------------------
(* The cyclic prompt iterator on its own: fetch after fetch, over any       *)
(* number of make_experience calls                                          *)

DefaultConfig(chunk) ==
    [chunk_size |-> chunk, scale_reward |-> "none", cliprange_reward |-> 0,
     ref_mean |-> None, ref_std |-> None]

InitLoader ==
    /\ \E chunk \in ChunkSizes : config = DefaultConfig(chunk)
    /\ \E loader \in 1 .. MaxDataset : Constructed(loader)
    /\ pc = "loader"

\* The last n entries of a sequence.
LastN(s, n) == SubSeq(s, IF Len(s) > n THEN Len(s) - n + 1 ELSE 1, Len(s))

\* The fetch of lines 82-86, as any loop iteration of any call performs it.
LoaderFetch ==
    /\ pc \in {"loader", "fetched"}
    /\ \E nb \in NextBatch(pipeline_iterator, pipeline_loader, config.chunk_size) :
          /\ pipeline_iterator' = nb.rest
          /\ batch' = nb.batch
          /\ IF nb.stop
             THEN /\ pc' = "raised"
                  /\ raised_at' = "StopIteration"
                  /\ UNCHANGED <<fetches, pass_seen>>
             ELSE /\ pc' = "fetched"
                  /\ fetches' = LastN(Append(fetches, nb.batch), pipeline_loader)
                  /\ pass_seen' = IF IterNext(pipeline_iterator, config.chunk_size).stop
                                  THEN nb.batch
                                  ELSE pass_seen \o nb.batch
                  /\ UNCHANGED raised_at
    /\ UNCHANGED <<config, pipeline_loader, running, ref_mean, ref_std, store, num_rollouts,
                   ppo_rl_elements, exp_time, raw_scores, divisor, scores, processed,
                   iterations, store_before, pushes, logged, fetched, span>>

NextLoader == LoaderFetch

SpecLoader == InitLoader /\ [][NextLoader]_vars

Range(s) == {s[i] : i \in 1 .. Len(s)}

RECURSIVE Flatten(_)
Flatten(ss) == IF ss = <<>> THEN <<>> ELSE Head(ss) \o Flatten(Tail(ss))

\* C5 as stated: no fetch lets StopIteration out, a restart returns the
\* first batch of the new pass, and every window of dataset-size
\* consecutive fetches contains every prompt.
C5_EveryWindowCoversDataset ==
    /\ raised_at # "StopIteration"
    /\ pc = "fetched" => batch # <<>>
    /\ Len(fetches) = pipeline_loader => Range(Flatten(fetches)) = 1 .. pipeline_loader

\* C5 amended: no fetch lets StopIteration out, a restart returns the first
\* batch of the new pass, and the fetches of one pass (from a restart to the
\* next exhaustion) contain every prompt exactly once.
C5_EveryPassCoversDataset ==
    /\ raised_at # "StopIteration"
    /\ pc = "fetched" =>
          /\ batch # <<>>
          /\ batch = LastN(pass_seen, Len(batch))
          /\ pass_seen \o pipeline_iterator \in Passes(pipeline_loader)

\* A restart has happened, and the last dataset-size fetches, which
\* straddle it, miss a prompt.
C5_Witness ==
    /\ pc = "fetched"
    /\ Len(fetches) = pipeline_loader
    /\ Len(Flatten(fetches)) > Len(pass_seen)
    /\ Range(Flatten(fetches)) # 1 .. pipeline_loader

-----------------------------------------------------------------------------
(* Response-span slicing and the terminal reward overwrite, on one padded   *)
(* batch.  A tensor row is the sequence of its entries, each tagged with    *)
(* what it holds and its 0-based position in the unsliced row.              *)

Tensor(src, len) == [j \in 1 .. len |-> [src |-> src, pos |-> j - 1]]

\* t[:-1]
DropLast(t) == SubSeq(t, 1, Len(t) - 1)

\* The attention mask of a prompt of width p: padded on the left or on the
\* right, with at least one real token.
PromptMasks(p) ==
    {[j \in 1 .. p |-> IF j > p - q THEN 1 ELSE 0] : q \in 1 .. p}
        \cup {[j \in 1 .. p |-> IF j <= q THEN 1 ELSE 0] : q \in 1 .. p}

\* The mask of a response of width g whose first k tokens are real.
ResponseMask(k, g) == [j \in 1 .. g |-> IF j <= k THEN 1 ELSE 0]

\* A sample of a decoder-only batch: k real generated tokens and the
\* attention mask get_model_inputs gives for prompt + response.
DecoderSamples(p, g) ==
    {[k |-> k, attention_mask |-> pm \o ResponseMask(k, g)] :
        pm \in PromptMasks(p), k \in 0 .. g}

\* A sample of an encoder-decoder batch: the decoder sequence is the start
\* token and g positions, the first k of them real.
T5Samples(g) == {[k |-> k, attention_mask |-> <<1>> \o ResponseMask(k, g)] : k \in 0 .. g}

\* rs[-1] = scores[ix]: IndexError on an empty rs.  The score entry carries
\* the sample's index in place of a position.
SetLast(rs, ix) ==
    IF rs = <<>>
    THEN [ok |-> FALSE, rewards |-> <<>>]
    ELSE [ok |-> TRUE, rewards |-> [rs EXCEPT ![Len(rs)] = [src |-> "score", pos |-> ix]]]

\* PPOOrchestrator: values, logprobs and rewards of sample ix.
DecoderSlice(p, sample, ix) ==
    LET len      == Len(sample.attention_mask)
        values   == DropLast(Tensor("value", len))
        logprobs == Tensor("logprob", len - 1)
        rewards  == Tensor("kl", len - 1)
        start    == p - 1
        ends     == start + SumSeq(PySlice(sample.attention_mask, start, len))
        set      == SetLast(PySlice(rewards, start, ends), ix)
    IN  [ok       |-> set.ok,
         start    |-> start,
         values   |-> PySlice(values, start, ends),
         logprobs |-> PySlice(logprobs, start, ends),
         rewards  |-> set.rewards]

\* T5PPOOrchestrator: values, logprobs and rewards of sample ix.
T5Slice(sample, ix) ==
    LET len      == Len(sample.attention_mask)
        values   == DropLast(Tensor("value", len))
        logprobs == Tensor("logprob", len - 1)
        rewards  == Tensor("kl", len - 1)
        set      == SetLast(rewards, ix)
    IN  [ok       |-> set.ok,
         start    |-> 0,
         values   |-> values,
         logprobs |-> logprobs,
         rewards  |-> set.rewards]

InitSlice ==
    /\ config = DefaultConfig(SliceSamples)
    /\ Constructed(NumPrompts)
    /\ pc = "slice"

SliceDecoder ==
    /\ pc = "slice"
    /\ \E p \in 1 .. MaxPrompt, g \in 1 .. MaxGen :
       \E samples \in [1 .. SliceSamples -> DecoderSamples(p, g)] :
          span' = [arch |-> "decoder", p |-> p, g |-> g, samples |-> samples,
                   out |-> [ix \in 1 .. SliceSamples |-> DecoderSlice(p, samples[ix], ix)]]
    /\ UNCHANGED <<config, pipeline_loader, pipeline_iterator, running, ref_mean, ref_std,
                   store, pc, num_rollouts, ppo_rl_elements, exp_time, raised_at, batch,
                   raw_scores, divisor, scores, processed, iterations, store_before,
                   pushes, logged, fetched, fetches, pass_seen>>

SliceT5 ==
    /\ pc = "slice"
    /\ \E g \in 1 .. MaxGen :
       \E samples \in [1 .. SliceSamples -> T5Samples(g)] :
          span' = [arch |-> "t5", p |-> 1, g |-> g, samples |-> samples,
                   out |-> [ix \in 1 .. SliceSamples |-> T5Slice(samples[ix], ix)]]
    /\ UNCHANGED <<config, pipeline_loader, pipeline_iterator, running, ref_mean, ref_std,
                   store, pc, num_rollouts, ppo_rl_elements, exp_time, raised_at, batch,
                   raw_scores, divisor, scores, processed, iterations, store_before,
                   pushes, logged, fetched, fetches, pass_seen>>

NextSlice == SliceDecoder \/ SliceT5

SpecSlice == InitSlice /\ [][NextSlice]_vars

\* C2: decoder-only, a sample with k real generated tokens gets values,
\* logprobs and rewards of length exactly k, the rewards ending in the
\* sample's score.
C2_SpanLengthIsValidTokens ==
    span.arch = "decoder" =>
        \A ix \in 1 .. SliceSamples :
            LET k   == span.samples[ix].k
                out == span.out[ix]
            IN  k >= 1 =>
                  /\ out.ok
                  /\ Len(out.values) = k
                  /\ Len(out.logprobs) = k
                  /\ Len(out.rewards) = k
                  /\ out.rewards[Len(out.rewards)] = [src |-> "score", pos |-> ix]

\* Position, in the unsliced logprob row, of a sample's last real generated
\* token: row entry j is the log-probability of token j + 1, and the real
\* generated tokens are tokens p .. p + k - 1 (p = 1 for the decoder
\* sequence of an encoder-decoder model, whose token 0 is the start token).
TrueLast(p, k) == p + k - 2

\* C8: in both paths the score overwrites the reward at the sample's last
\* real generated token, and every other reward of the sample's vector is
\* the KL term of its own position.
C8_ScoreAtTrueLastToken ==
    span.arch \in {"decoder", "t5"} =>
        \A ix \in 1 .. SliceSamples :
            LET k   == span.samples[ix].k
                out == span.out[ix]
                n   == Len(out.rewards)
            IN  k >= 1 =>
                  /\ out.ok
                  /\ out.rewards[n] = [src |-> "score", pos |-> ix]
                  /\ out.start + n - 1 = TrueLast(span.p, k)
                  /\ \A j \in 1 .. n - 1 :
                        out.rewards[j] = [src |-> "kl", pos |-> out.start + j - 1]

====
